---------------------------- MODULE Spec2Model ----------------------------
(***************************************************************************)
(* Model of the effect-processing core of OpenAL Soft: the compressor and  *)
(* the ring modulator (Alc/effects/compressor.cpp, Alc/effects/            *)
(* modulator.cpp): the typed parameter protocol of both effects and the    *)
(* deviceUpdate / update / process life cycle of their EffectState.        *)
(*                                                                         *)
(* Numbers.  An ALfloat is modelled as an integer count of 1/FUnit, plus   *)
(* the value NaN, which compares false with everything as in IEEE 754.     *)
(* An ALint is an integer.                                                 *)
(***************************************************************************)
EXTENDS Integers, Sequences, FiniteSets, TLC

VARIABLES
    kind,       \* the effect type of the slot: "Compressor" or "Modulator"
    props,      \* the EffectProps the parameter protocol reads and writes
    call,       \* the last accessor call: its name, arguments and pre-state
    err,        \* the error the last accessor call signalled on the context
    out,        \* the caller-supplied output location of the last get call
    device,     \* the ALCdevice: its Frequency (sample rate, Hz)
    state,      \* the EffectState of the slot (CompressorState or ModulatorState)
    last,       \* the last life-cycle call and its arguments
    trace,      \* what the last process call computed, sample by sample
    hist,       \* history: the rate of the last deviceUpdate (0: none yet) and
                \* of the one before, the props of the last update, whether an
                \* update followed the last deviceUpdate, the number of process
                \* calls so far
    samplesOut  \* the output buffers the last call was given, as it left
                \* them (none when it was given none)

paramVars == <<props, call, err, out>>
lifeVars == <<device, state, last, trace, hist>>
vars == <<kind, props, call, err, out, device, state, last, trace, hist, samplesOut>>

-----------------------------------------------------------------------------
(* ALfloat values *)

FUnit == 2^10                       \* model floats are multiples of 1/FUnit
NaN == 0 - 2^30                     \* the float NaN (never an arithmetic value)

F(n) == n * FUnit                   \* the float of a small integer literal

FGe(a, b) == a # NaN /\ b # NaN /\ a >= b      \* a >= b on floats
FLe(a, b) == a # NaN /\ b # NaN /\ a <= b      \* a <= b on floats

\* static_cast<ALfloat>(ALint): exact for |v| <= 2^24, and the model's ALint
\* inputs stay below that.
IntToFloat(v) == v * FUnit

\* static_cast<ALint>(ALfloat): truncation toward zero.
FloatToInt(x) == IF x >= 0 THEN x \div FUnit ELSE 0 - ((0 - x) \div FUnit)

\* An int assigned to an ALboolean (unsigned char) field keeps its low 8 bits.
ToALboolean(v) == v % 256

-----------------------------------------------------------------------------
(* AL/efx.h: parameter identifiers, domains and defaults *)

AL_COMPRESSOR_ONOFF == 1
AL_COMPRESSOR_MIN_ONOFF == 0
AL_COMPRESSOR_MAX_ONOFF == 1
AL_COMPRESSOR_DEFAULT_ONOFF == 1

AL_RING_MODULATOR_FREQUENCY == 1
AL_RING_MODULATOR_HIGHPASS_CUTOFF == 2
AL_RING_MODULATOR_WAVEFORM == 3

AL_RING_MODULATOR_SINUSOID == 0
AL_RING_MODULATOR_SAWTOOTH == 1
AL_RING_MODULATOR_SQUARE == 2

AL_RING_MODULATOR_MIN_FREQUENCY == F(0)
AL_RING_MODULATOR_MAX_FREQUENCY == F(8000)
AL_RING_MODULATOR_DEFAULT_FREQUENCY == F(440)
AL_RING_MODULATOR_MIN_HIGHPASS_CUTOFF == F(0)
AL_RING_MODULATOR_MAX_HIGHPASS_CUTOFF == F(24000)
AL_RING_MODULATOR_DEFAULT_HIGHPASS_CUTOFF == F(800)
AL_RING_MODULATOR_MIN_WAVEFORM == 0
AL_RING_MODULATOR_MAX_WAVEFORM == 2
AL_RING_MODULATOR_DEFAULT_WAVEFORM == 0

AL_NO_ERROR == "AL_NO_ERROR"
AL_INVALID_ENUM == "AL_INVALID_ENUM"
AL_INVALID_VALUE == "AL_INVALID_VALUE"

\* The outcome of an accessor: the props after the call, the error signalled,
\* and (for a get) the content of the output location after the call.
SetResult(p, e) == [props |-> p, err |-> e]
GetResult(o, e) == [out |-> o, err |-> e]

-----------------------------------------------------------------------------
(* Compressor parameter protocol *)

\* Compressor_setParami without its range check.
Compressor_setParami_Unchecked(p, param, val) ==
    IF param = AL_COMPRESSOR_ONOFF
    THEN SetResult([p EXCEPT !.OnOff = ToALboolean(val)], AL_NO_ERROR)
    ELSE SetResult(p, AL_INVALID_ENUM)

Compressor_setParami(p, param, val) ==
    IF param = AL_COMPRESSOR_ONOFF
    THEN IF ~(val >= AL_COMPRESSOR_MIN_ONOFF /\ val <= AL_COMPRESSOR_MAX_ONOFF)
         THEN SetResult(p, AL_INVALID_VALUE)
         ELSE SetResult([p EXCEPT !.OnOff = ToALboolean(val)], AL_NO_ERROR)
    ELSE SetResult(p, AL_INVALID_ENUM)

Compressor_setParamiv(p, param, vals) == Compressor_setParami(p, param, vals[1])

Compressor_setParamf(p, param, val) == SetResult(p, AL_INVALID_ENUM)

Compressor_setParamfv(p, param, vals) == SetResult(p, AL_INVALID_ENUM)

Compressor_getParami(p, param, o) ==
    IF param = AL_COMPRESSOR_ONOFF
    THEN GetResult(p.OnOff, AL_NO_ERROR)
    ELSE GetResult(o, AL_INVALID_ENUM)

Compressor_getParamiv(p, param, o) == Compressor_getParami(p, param, o)

Compressor_getParamf(p, param, o) == GetResult(o, AL_INVALID_ENUM)

Compressor_getParamfv(p, param, o) == GetResult(o, AL_INVALID_ENUM)

CompressorStateFactory_getDefaultProps == [OnOff |-> AL_COMPRESSOR_DEFAULT_ONOFF]

-----------------------------------------------------------------------------
(* Modulator parameter protocol *)

FLt(a, b) == a # NaN /\ b # NaN /\ a < b       \* a < b on floats

\* Modulator_setParamf with the frequency's upper bound exclusive.
Modulator_setParamf_ExclusiveMax(p, param, val) ==
    IF param = AL_RING_MODULATOR_FREQUENCY
    THEN IF ~(FGe(val, AL_RING_MODULATOR_MIN_FREQUENCY)
              /\ FLt(val, AL_RING_MODULATOR_MAX_FREQUENCY))
         THEN SetResult(p, AL_INVALID_VALUE)
         ELSE SetResult([p EXCEPT !.Frequency = val], AL_NO_ERROR)
    ELSE IF param = AL_RING_MODULATOR_HIGHPASS_CUTOFF
    THEN IF ~(FGe(val, AL_RING_MODULATOR_MIN_HIGHPASS_CUTOFF)
              /\ FLe(val, AL_RING_MODULATOR_MAX_HIGHPASS_CUTOFF))
         THEN SetResult(p, AL_INVALID_VALUE)
         ELSE SetResult([p EXCEPT !.HighPassCutoff = val], AL_NO_ERROR)
    ELSE SetResult(p, AL_INVALID_ENUM)

\* Modulator_setParamf rejecting with (val < min || val > max), which lets a
\* NaN through.
Modulator_setParamf_NaNPasses(p, param, val) ==
    IF param = AL_RING_MODULATOR_FREQUENCY
    THEN IF FLt(val, AL_RING_MODULATOR_MIN_FREQUENCY)
            \/ FLt(AL_RING_MODULATOR_MAX_FREQUENCY, val)
         THEN SetResult(p, AL_INVALID_VALUE)
         ELSE SetResult([p EXCEPT !.Frequency = val], AL_NO_ERROR)
    ELSE IF param = AL_RING_MODULATOR_HIGHPASS_CUTOFF
    THEN IF FLt(val, AL_RING_MODULATOR_MIN_HIGHPASS_CUTOFF)
            \/ FLt(AL_RING_MODULATOR_MAX_HIGHPASS_CUTOFF, val)
         THEN SetResult(p, AL_INVALID_VALUE)
         ELSE SetResult([p EXCEPT !.HighPassCutoff = val], AL_NO_ERROR)
    ELSE SetResult(p, AL_INVALID_ENUM)

\* Modulator_setParamf taking the waveform too, validated as a waveform code.
Modulator_setParamf_TakesWaveform(p, param, val) ==
    IF param = AL_RING_MODULATOR_FREQUENCY
    THEN IF ~(FGe(val, AL_RING_MODULATOR_MIN_FREQUENCY)
              /\ FLe(val, AL_RING_MODULATOR_MAX_FREQUENCY))
         THEN SetResult(p, AL_INVALID_VALUE)
         ELSE SetResult([p EXCEPT !.Frequency = val], AL_NO_ERROR)
    ELSE IF param = AL_RING_MODULATOR_HIGHPASS_CUTOFF
    THEN IF ~(FGe(val, AL_RING_MODULATOR_MIN_HIGHPASS_CUTOFF)
              /\ FLe(val, AL_RING_MODULATOR_MAX_HIGHPASS_CUTOFF))
         THEN SetResult(p, AL_INVALID_VALUE)
         ELSE SetResult([p EXCEPT !.HighPassCutoff = val], AL_NO_ERROR)
    ELSE IF param = AL_RING_MODULATOR_WAVEFORM
    THEN IF ~(FGe(val, IntToFloat(AL_RING_MODULATOR_MIN_WAVEFORM))
              /\ FLe(val, IntToFloat(AL_RING_MODULATOR_MAX_WAVEFORM)))
         THEN SetResult(p, AL_INVALID_VALUE)
         ELSE SetResult([p EXCEPT !.Waveform = FloatToInt(val)], AL_NO_ERROR)
    ELSE SetResult(p, AL_INVALID_ENUM)

Modulator_setParamf(p, param, val) ==
    IF param = AL_RING_MODULATOR_FREQUENCY
    THEN IF ~(FGe(val, AL_RING_MODULATOR_MIN_FREQUENCY)
              /\ FLe(val, AL_RING_MODULATOR_MAX_FREQUENCY))
         THEN SetResult(p, AL_INVALID_VALUE)
         ELSE SetResult([p EXCEPT !.Frequency = val], AL_NO_ERROR)
    ELSE IF param = AL_RING_MODULATOR_HIGHPASS_CUTOFF
    THEN IF ~(FGe(val, AL_RING_MODULATOR_MIN_HIGHPASS_CUTOFF)
              /\ FLe(val, AL_RING_MODULATOR_MAX_HIGHPASS_CUTOFF))
         THEN SetResult(p, AL_INVALID_VALUE)
         ELSE SetResult([p EXCEPT !.HighPassCutoff = val], AL_NO_ERROR)
    ELSE SetResult(p, AL_INVALID_ENUM)

Modulator_setParamfv(p, param, vals) == Modulator_setParamf(p, param, vals[1])

\* Modulator_setParami validating a frequency or cutoff as an integer against
\* the frequency range, whichever of the two is set.
Modulator_setParami_OwnCheck(p, param, val) ==
    IF param \in {AL_RING_MODULATOR_FREQUENCY, AL_RING_MODULATOR_HIGHPASS_CUTOFF}
    THEN IF ~(FGe(IntToFloat(val), AL_RING_MODULATOR_MIN_FREQUENCY)
              /\ FLe(IntToFloat(val), AL_RING_MODULATOR_MAX_FREQUENCY))
         THEN SetResult(p, AL_INVALID_VALUE)
         ELSE IF param = AL_RING_MODULATOR_FREQUENCY
              THEN SetResult([p EXCEPT !.Frequency = IntToFloat(val)], AL_NO_ERROR)
              ELSE SetResult([p EXCEPT !.HighPassCutoff = IntToFloat(val)], AL_NO_ERROR)
    ELSE IF param = AL_RING_MODULATOR_WAVEFORM
    THEN IF ~(val >= AL_RING_MODULATOR_MIN_WAVEFORM
              /\ val <= AL_RING_MODULATOR_MAX_WAVEFORM)
         THEN SetResult(p, AL_INVALID_VALUE)
         ELSE SetResult([p EXCEPT !.Waveform = val], AL_NO_ERROR)
    ELSE SetResult(p, AL_INVALID_ENUM)

\* Modulator_setParami putting the cutoff back to its default when it stores
\* a waveform.
Modulator_setParami_ResetsCutoff(p, param, val) ==
    IF param \in {AL_RING_MODULATOR_FREQUENCY, AL_RING_MODULATOR_HIGHPASS_CUTOFF}
    THEN Modulator_setParamf(p, param, IntToFloat(val))
    ELSE IF param = AL_RING_MODULATOR_WAVEFORM
    THEN IF ~(val >= AL_RING_MODULATOR_MIN_WAVEFORM
              /\ val <= AL_RING_MODULATOR_MAX_WAVEFORM)
         THEN SetResult(p, AL_INVALID_VALUE)
         ELSE SetResult([p EXCEPT !.Waveform = val,
                                  !.HighPassCutoff = AL_RING_MODULATOR_DEFAULT_HIGHPASS_CUTOFF],
                        AL_NO_ERROR)
    ELSE SetResult(p, AL_INVALID_ENUM)

Modulator_setParami(p, param, val) ==
    IF param \in {AL_RING_MODULATOR_FREQUENCY, AL_RING_MODULATOR_HIGHPASS_CUTOFF}
    THEN Modulator_setParamf(p, param, IntToFloat(val))
    ELSE IF param = AL_RING_MODULATOR_WAVEFORM
    THEN IF ~(val >= AL_RING_MODULATOR_MIN_WAVEFORM
              /\ val <= AL_RING_MODULATOR_MAX_WAVEFORM)
         THEN SetResult(p, AL_INVALID_VALUE)
         ELSE SetResult([p EXCEPT !.Waveform = val], AL_NO_ERROR)
    ELSE SetResult(p, AL_INVALID_ENUM)

Modulator_setParamiv(p, param, vals) == Modulator_setParami(p, param, vals[1])

Modulator_getParami(p, param, o) ==
    IF param = AL_RING_MODULATOR_FREQUENCY
    THEN GetResult(FloatToInt(p.Frequency), AL_NO_ERROR)
    ELSE IF param = AL_RING_MODULATOR_HIGHPASS_CUTOFF
    THEN GetResult(FloatToInt(p.HighPassCutoff), AL_NO_ERROR)
    ELSE IF param = AL_RING_MODULATOR_WAVEFORM
    THEN GetResult(p.Waveform, AL_NO_ERROR)
    ELSE GetResult(o, AL_INVALID_ENUM)

Modulator_getParamiv(p, param, o) == Modulator_getParami(p, param, o)

\* Modulator_getParamf clearing the output location before it dispatches.
Modulator_getParamf_ClearsOut(p, param, o) ==
    IF param = AL_RING_MODULATOR_FREQUENCY
    THEN GetResult(p.Frequency, AL_NO_ERROR)
    ELSE IF param = AL_RING_MODULATOR_HIGHPASS_CUTOFF
    THEN GetResult(p.HighPassCutoff, AL_NO_ERROR)
    ELSE GetResult(0, AL_INVALID_ENUM)

Modulator_getParamf(p, param, o) ==
    IF param = AL_RING_MODULATOR_FREQUENCY
    THEN GetResult(p.Frequency, AL_NO_ERROR)
    ELSE IF param = AL_RING_MODULATOR_HIGHPASS_CUTOFF
    THEN GetResult(p.HighPassCutoff, AL_NO_ERROR)
    ELSE GetResult(o, AL_INVALID_ENUM)

Modulator_getParamfv(p, param, o) == Modulator_getParamf(p, param, o)

ModulatorStateFactory_getDefaultProps ==
    [Frequency      |-> AL_RING_MODULATOR_DEFAULT_FREQUENCY,
     HighPassCutoff |-> AL_RING_MODULATOR_DEFAULT_HIGHPASS_CUTOFF,
     Waveform       |-> AL_RING_MODULATOR_DEFAULT_WAVEFORM]

-----------------------------------------------------------------------------
(* The control surface: calls of the 8 accessors of the slot's effect type *)

MaxParamId == 4

\* Parameter identifiers a caller may pass, recognised or not.
ParamIds == 0 .. MaxParamId

\* ALint arguments: a negative, both boolean values, every waveform, the
\* first value past the waveforms, a value past the maximum frequency.
ALintVals == {-1, 0, 1, 2, 3, 8001}

\* ALfloat arguments: NaN, the largest negative and the smallest positive
\* model float, 1.0 (a waveform code and an on/off value), both maxima and
\* the floats that follow them.
ALfloatVals == {NaN, 0 - 1, 1, F(1), F(8000), F(8000) + 1, F(24000), F(24000) + 2}

\* What the caller's output location holds before a get call.
OutVals == {0 - 7}

NoCall == [fn |-> "none", param |-> 0, val |-> 0, props |-> <<>>, out |-> 0]

\* The life cycle's variables while only the parameter protocol runs.
NoDevice == [Frequency |-> 0]
NoState == <<>>
NoLifeCall == [op |-> "create"]
NoOutput == <<>>
NoHistory == [rate |-> 0, prev |-> 0, uprops |-> <<>>, fresh |-> FALSE, nprocess |-> 0]

\* A set call of accessor fn, whose outcome is res.
SetCall(k, fn, param, val, res) ==
    /\ kind = k
    /\ call' = [fn |-> fn, param |-> param, val |-> val, props |-> props, out |-> 0]
    /\ props' = res.props
    /\ err' = res.err
    /\ out' = 0
    /\ UNCHANGED <<kind, lifeVars, samplesOut>>

\* A get call of accessor fn on an output location holding o0, outcome res.
GetCall(k, fn, param, o0, res) ==
    /\ kind = k
    /\ call' = [fn |-> fn, param |-> param, val |-> 0, props |-> props, out |-> o0]
    /\ out' = res.out
    /\ err' = res.err
    /\ UNCHANGED <<kind, props, lifeVars, samplesOut>>

CallCompressor_setParami ==
    \E param \in ParamIds, val \in ALintVals :
        SetCall("Compressor", "setParami", param, val,
                Compressor_setParami(props, param, val))

CallCompressor_setParamiv ==
    \E param \in ParamIds, val \in ALintVals :
        SetCall("Compressor", "setParamiv", param, val,
                Compressor_setParamiv(props, param, <<val>>))

CallCompressor_setParamf ==
    \E param \in ParamIds, val \in ALfloatVals :
        SetCall("Compressor", "setParamf", param, val,
                Compressor_setParamf(props, param, val))

CallCompressor_setParamfv ==
    \E param \in ParamIds, val \in ALfloatVals :
        SetCall("Compressor", "setParamfv", param, val,
                Compressor_setParamfv(props, param, <<val>>))

CallCompressor_getParami ==
    \E param \in ParamIds, o0 \in OutVals :
        GetCall("Compressor", "getParami", param, o0,
                Compressor_getParami(props, param, o0))

CallCompressor_getParamiv ==
    \E param \in ParamIds, o0 \in OutVals :
        GetCall("Compressor", "getParamiv", param, o0,
                Compressor_getParamiv(props, param, o0))

CallCompressor_getParamf ==
    \E param \in ParamIds, o0 \in OutVals :
        GetCall("Compressor", "getParamf", param, o0,
                Compressor_getParamf(props, param, o0))

CallCompressor_getParamfv ==
    \E param \in ParamIds, o0 \in OutVals :
        GetCall("Compressor", "getParamfv", param, o0,
                Compressor_getParamfv(props, param, o0))

CallModulator_setParami ==
    \E param \in ParamIds, val \in ALintVals :
        SetCall("Modulator", "setParami", param, val,
                Modulator_setParami(props, param, val))

CallModulator_setParamiv ==
    \E param \in ParamIds, val \in ALintVals :
        SetCall("Modulator", "setParamiv", param, val,
                Modulator_setParamiv(props, param, <<val>>))

CallModulator_setParamf ==
    \E param \in ParamIds, val \in ALfloatVals :
        SetCall("Modulator", "setParamf", param, val,
                Modulator_setParamf(props, param, val))

CallModulator_setParamfv ==
    \E param \in ParamIds, val \in ALfloatVals :
        SetCall("Modulator", "setParamfv", param, val,
                Modulator_setParamfv(props, param, <<val>>))

CallModulator_getParami ==
    \E param \in ParamIds, o0 \in OutVals :
        GetCall("Modulator", "getParami", param, o0,
                Modulator_getParami(props, param, o0))

CallModulator_getParamiv ==
    \E param \in ParamIds, o0 \in OutVals :
        GetCall("Modulator", "getParamiv", param, o0,
                Modulator_getParamiv(props, param, o0))

CallModulator_getParamf ==
    \E param \in ParamIds, o0 \in OutVals :
        GetCall("Modulator", "getParamf", param, o0,
                Modulator_getParamf(props, param, o0))

CallModulator_getParamfv ==
    \E param \in ParamIds, o0 \in OutVals :
        GetCall("Modulator", "getParamfv", param, o0,
                Modulator_getParamfv(props, param, o0))

\* The factory of the slot's effect type supplies the first props.
InitParams ==
    /\ kind \in {"Compressor", "Modulator"}
    /\ props = IF kind = "Compressor" THEN CompressorStateFactory_getDefaultProps
                                      ELSE ModulatorStateFactory_getDefaultProps
    /\ call = NoCall
    /\ err = AL_NO_ERROR
    /\ out = 0
    /\ device = NoDevice
    /\ state = NoState
    /\ last = NoLifeCall
    /\ trace = <<>>
    /\ hist = NoHistory
    /\ samplesOut = NoOutput

NextParams ==
    \/ CallCompressor_setParami
    \/ CallCompressor_setParamiv
    \/ CallCompressor_setParamf
    \/ CallCompressor_setParamfv
    \/ CallCompressor_getParami
    \/ CallCompressor_getParamiv
    \/ CallCompressor_getParamf
    \/ CallCompressor_getParamfv
    \/ CallModulator_setParami
    \/ CallModulator_setParamiv
    \/ CallModulator_setParamf
    \/ CallModulator_setParamfv
    \/ CallModulator_getParami
    \/ CallModulator_getParamiv
    \/ CallModulator_getParamf
    \/ CallModulator_getParamfv

SpecParams == InitParams /\ [][NextParams]_vars

-----------------------------------------------------------------------------
(* Properties of the parameter protocol, checked under SpecParams *)

Called(k, fns) == kind = k /\ call.fn \in fns

\* C1: for the compressor, setParami(AL_COMPRESSOR_ONOFF, v) with v in the
\* declared on/off domain raises no error and a following getParami of the
\* parameter returns exactly v; with v outside the domain it signals
\* InvalidValue and the stored OnOff is the one before the call.
C1_OnOffRoundTrip ==
    (Called("Compressor", {"setParami"}) /\ call.param = AL_COMPRESSOR_ONOFF) =>
        IF call.val \in AL_COMPRESSOR_MIN_ONOFF .. AL_COMPRESSOR_MAX_ONOFF
        THEN /\ err = AL_NO_ERROR
             /\ \A o0 \in OutVals :
                    Compressor_getParami(props, AL_COMPRESSOR_ONOFF, o0)
                        = GetResult(call.val, AL_NO_ERROR)
        ELSE /\ err = AL_INVALID_VALUE
             /\ props.OnOff = call.props.OnOff

\* An accepted setParami that turned the compressor off.
C1_Witness ==
    /\ Called("Compressor", {"setParami"})
    /\ call.param = AL_COMPRESSOR_ONOFF
    /\ call.val = 0
    /\ call.props.OnOff = 1
    /\ props.OnOff = 0
    /\ err = AL_NO_ERROR

InFrequencyRange(f) ==
    /\ f # NaN
    /\ f >= AL_RING_MODULATOR_MIN_FREQUENCY
    /\ f <= AL_RING_MODULATOR_MAX_FREQUENCY

InHighPassCutoffRange(f) ==
    /\ f # NaN
    /\ f >= AL_RING_MODULATOR_MIN_HIGHPASS_CUTOFF
    /\ f <= AL_RING_MODULATOR_MAX_HIGHPASS_CUTOFF

\* C2: for the modulator, setParamf(AL_RING_MODULATOR_FREQUENCY, f) with f in
\* the declared frequency range raises no error and a following getParamf of
\* the parameter returns f exactly; with f outside the range (NaN included) it
\* signals InvalidValue and the stored frequency is unchanged.
C2_FrequencyRoundTrip ==
    (Called("Modulator", {"setParamf"}) /\ call.param = AL_RING_MODULATOR_FREQUENCY) =>
        IF InFrequencyRange(call.val)
        THEN /\ err = AL_NO_ERROR
             /\ \A o0 \in OutVals :
                    Modulator_getParamf(props, AL_RING_MODULATOR_FREQUENCY, o0)
                        = GetResult(call.val, AL_NO_ERROR)
        ELSE /\ err = AL_INVALID_VALUE
             /\ props.Frequency = call.props.Frequency

\* An accepted setParamf of the maximum frequency over another frequency.
C2_Witness ==
    /\ Called("Modulator", {"setParamf"})
    /\ call.param = AL_RING_MODULATOR_FREQUENCY
    /\ call.val = AL_RING_MODULATOR_MAX_FREQUENCY
    /\ call.props.Frequency # call.val
    /\ props.Frequency = call.val
    /\ err = AL_NO_ERROR

\* C3: starting from getDefaultProps(), after any sequence of set calls of
\* any of the four shapes with any identifier and any value, every stored
\* field of EffectProps lies within its declared range.
C3_StoredInRange ==
    /\ kind = "Compressor" =>
          props.OnOff \in AL_COMPRESSOR_MIN_ONOFF .. AL_COMPRESSOR_MAX_ONOFF
    /\ kind = "Modulator" =>
          /\ InFrequencyRange(props.Frequency)
          /\ InHighPassCutoffRange(props.HighPassCutoff)
          /\ props.Waveform \in
                AL_RING_MODULATOR_MIN_WAVEFORM .. AL_RING_MODULATOR_MAX_WAVEFORM

\* A NaN cutoff was just rejected by the float-vector set, after earlier sets
\* had stored the maximum frequency and the last waveform.
C3_Witness ==
    /\ Called("Modulator", {"setParamfv"})
    /\ call.param = AL_RING_MODULATOR_HIGHPASS_CUTOFF
    /\ call.val = NaN
    /\ err = AL_INVALID_VALUE
    /\ props.Frequency = AL_RING_MODULATOR_MAX_FREQUENCY
    /\ props.Waveform = AL_RING_MODULATOR_MAX_WAVEFORM

IntShaped == {"setParami", "setParamiv", "getParami", "getParamiv"}
FloatShaped == {"setParamf", "setParamfv", "getParamf", "getParamfv"}
SetFns == {"setParami", "setParamiv", "setParamf", "setParamfv"}
GetFns == {"getParami", "getParamiv", "getParamf", "getParamfv"}

\* The identifiers each accessor has a case for.
Recognised(k, fn) ==
    IF k = "Compressor"
    THEN IF fn \in IntShaped THEN {AL_COMPRESSOR_ONOFF} ELSE {}
    ELSE IF fn \in IntShaped
         THEN {AL_RING_MODULATOR_FREQUENCY, AL_RING_MODULATOR_HIGHPASS_CUTOFF,
               AL_RING_MODULATOR_WAVEFORM}
         ELSE {AL_RING_MODULATOR_FREQUENCY, AL_RING_MODULATOR_HIGHPASS_CUTOFF}

\* C4: for both effects and all 8 accessors, a call with an identifier the
\* accessor does not recognise signals InvalidEnum, leaves every field of
\* EffectProps as it was and leaves the caller's output location as it was.
C4_UnrecognisedMutatesNothing ==
    (call.fn \in SetFns \cup GetFns /\ call.param \notin Recognised(kind, call.fn)) =>
        /\ err = AL_INVALID_ENUM
        /\ props = call.props
        /\ out = call.out

\* getParamf of the modulator's waveform, which has no float case, left the
\* output location alone.
C4_Witness ==
    /\ Called("Modulator", {"getParamf"})
    /\ call.param = AL_RING_MODULATOR_WAVEFORM
    /\ call.out \in OutVals
    /\ out = call.out
    /\ err = AL_INVALID_ENUM

InWaveformDomain(f) ==
    /\ f # NaN
    /\ f >= IntToFloat(AL_RING_MODULATOR_MIN_WAVEFORM)
    /\ f <= IntToFloat(AL_RING_MODULATOR_MAX_WAVEFORM)

InOnOffDomain(f) ==
    /\ f # NaN
    /\ f >= IntToFloat(AL_COMPRESSOR_MIN_ONOFF)
    /\ f <= IntToFloat(AL_COMPRESSOR_MAX_ONOFF)

\* C5 as stated: a float-shaped set of the modulator's waveform is validated
\* against the waveform domain (accepted inside it, InvalidValue outside it),
\* and likewise a float-shaped set of the compressor's on/off parameter.
C5_FloatSetValidatesCategorical ==
    /\ (Called("Modulator", {"setParamf", "setParamfv"})
            /\ call.param = AL_RING_MODULATOR_WAVEFORM) =>
          err = (IF InWaveformDomain(call.val) THEN AL_NO_ERROR ELSE AL_INVALID_VALUE)
    /\ (Called("Compressor", {"setParamf", "setParamfv"})
            /\ call.param = AL_COMPRESSOR_ONOFF) =>
          err = (IF InOnOffDomain(call.val) THEN AL_NO_ERROR ELSE AL_INVALID_VALUE)

\* C5, amended: a float-shaped set (setParamf, setParamfv) of a categorical
\* parameter (the modulator's waveform, the compressor's on/off) is not
\* validated against the categorical domain: for every value, inside the
\* domain or not, it signals InvalidEnum and changes no field of EffectProps.
\* Only the integer-shaped sets validate the categorical domain, signalling
\* InvalidValue outside it.
C5_FloatSetOfCategoricalIsInvalidEnum ==
    /\ (Called("Modulator", {"setParamf", "setParamfv"})
            /\ call.param = AL_RING_MODULATOR_WAVEFORM) =>
          (err = AL_INVALID_ENUM /\ props = call.props)
    /\ (Called("Compressor", {"setParamf", "setParamfv"})
            /\ call.param = AL_COMPRESSOR_ONOFF) =>
          (err = AL_INVALID_ENUM /\ props = call.props)
    /\ (Called("Modulator", {"setParami", "setParamiv"})
            /\ call.param = AL_RING_MODULATOR_WAVEFORM) =>
          (err = AL_INVALID_VALUE <=>
              call.val \notin AL_RING_MODULATOR_MIN_WAVEFORM .. AL_RING_MODULATOR_MAX_WAVEFORM)
    /\ (Called("Compressor", {"setParami", "setParamiv"})
            /\ call.param = AL_COMPRESSOR_ONOFF) =>
          (err = AL_INVALID_VALUE <=>
              call.val \notin AL_COMPRESSOR_MIN_ONOFF .. AL_COMPRESSOR_MAX_ONOFF)

\* setParamf of the waveform with 1.0, the code of the sawtooth, was refused
\* as an unknown identifier.
C5_Witness ==
    /\ Called("Modulator", {"setParamf"})
    /\ call.param = AL_RING_MODULATOR_WAVEFORM
    /\ call.val = IntToFloat(AL_RING_MODULATOR_SAWTOOTH)
    /\ err = AL_INVALID_ENUM
    /\ props = call.props

\* C6: an integer-shaped set of the modulator's frequency or high-pass cutoff
\* has exactly the outcome of setParamf with the integer converted to float
\* (same error, same props); and every vector accessor, of either effect, has
\* exactly the outcome of its scalar counterpart on the vector's first element.
C6_CrossShapeDispatch ==
    /\ (Called("Modulator", {"setParami", "setParamiv"})
            /\ call.param \in {AL_RING_MODULATOR_FREQUENCY,
                               AL_RING_MODULATOR_HIGHPASS_CUTOFF}) =>
          /\ SetResult(props, err)
                = Modulator_setParamf(call.props, call.param, IntToFloat(call.val))
          /\ err \in {AL_NO_ERROR, AL_INVALID_VALUE}
          /\ err = AL_NO_ERROR =>
                IF call.param = AL_RING_MODULATOR_FREQUENCY
                THEN props.Frequency = call.val * FUnit
                ELSE props.HighPassCutoff = call.val * FUnit
    /\ Called("Modulator", {"setParamiv"}) =>
          SetResult(props, err) = Modulator_setParami(call.props, call.param, call.val)
    /\ Called("Modulator", {"setParamfv"}) =>
          SetResult(props, err) = Modulator_setParamf(call.props, call.param, call.val)
    /\ Called("Modulator", {"getParamiv"}) =>
          GetResult(out, err) = Modulator_getParami(props, call.param, call.out)
    /\ Called("Modulator", {"getParamfv"}) =>
          GetResult(out, err) = Modulator_getParamf(props, call.param, call.out)
    /\ Called("Compressor", {"setParamiv"}) =>
          SetResult(props, err) = Compressor_setParami(call.props, call.param, call.val)
    /\ Called("Compressor", {"setParamfv"}) =>
          SetResult(props, err) = Compressor_setParamf(call.props, call.param, call.val)
    /\ Called("Compressor", {"getParamiv"}) =>
          GetResult(out, err) = Compressor_getParami(props, call.param, call.out)
    /\ Called("Compressor", {"getParamfv"}) =>
          GetResult(out, err) = Compressor_getParamf(props, call.param, call.out)

\* setParamiv stored the integer 8001 as the high-pass cutoff 8001.0.
C6_Witness ==
    /\ Called("Modulator", {"setParamiv"})
    /\ call.param = AL_RING_MODULATOR_HIGHPASS_CUTOFF
    /\ call.val = 8001
    /\ err = AL_NO_ERROR
    /\ props.HighPassCutoff = F(8001)
    /\ call.props.HighPassCutoff # F(8001)

-----------------------------------------------------------------------------
(* Float arithmetic of the effect states, in fixed point: a float is a count  *)
(* of 1/FUnit and every operation rounds its exact result to the nearest      *)
(* count, as float arithmetic rounds to the nearest float.                    *)

FOne == FUnit                                   \* 1.0f

FGt(a, b) == a # NaN /\ b # NaN /\ a > b        \* a > b on floats

fabs(x) == IF x = NaN THEN NaN ELSE IF x < 0 THEN 0 - x ELSE x

\* a * b, for a, b >= 0
FMul(a, b) == (a * b + FUnit \div 2) \div FUnit

\* 1.0f / a, for a > 0
FRecip(a) == (FUnit * FUnit + a \div 2) \div a

mini(a, b) == IF a < b THEN a ELSE b
minf(a, b) == IF FGt(a, b) THEN b ELSE a
maxf(a, b) == IF FGt(a, b) THEN a ELSE b

\* clampf(val, min, max): val clamped into [min, max].  What a NaN clamps to
\* is left open: onNaN is any of NaN, min and max.
clampf(val, min, max, onNaN) == IF val = NaN THEN onNaN ELSE minf(max, maxf(min, val))

RECURSIVE FPowN(_, _)
\* m multiplied n times, rounding each product
FPowN(m, n) == IF n = 0 THEN FOne ELSE FMul(FPowN(m, n - 1), m)

RECURSIVE FRootIn(_, _, _, _)
\* The largest m in lo..hi whose n-th power is at most x.
FRootIn(x, n, lo, hi) ==
    IF lo >= hi THEN lo
    ELSE LET mid == (lo + hi + 1) \div 2
         IN  IF FPowN(mid, n) <= x THEN FRootIn(x, n, mid, hi)
                                   ELSE FRootIn(x, n, lo, mid - 1)

\* std::pow(x, 1.0f/n) for a whole sample count n >= 1 and 0 < x <= 4.0
FRoot(x, n) == FRootIn(x, n, 0, 4 * FUnit)

-----------------------------------------------------------------------------
(* The slot's channels and the mix bus *)

\* The ambisonic input channels of the slot, slot->Wet.NumChannels of them.
AmbiChannels == {"W", "X"}

\* The output channels of the mix bus, target.Main->NumChannels of them.
OutputChannels == {"FrontLeft", "FrontRight"}

\* A gain per output channel, all zero: ALfloat CurrentGains[...]{}.
NoGains == [c \in OutputChannels |-> 0]

-----------------------------------------------------------------------------
(* CompressorState *)

AMP_ENVELOPE_MIN == FUnit \div 2                \* 0.5f
AMP_ENVELOPE_MAX == 2 * FUnit                   \* 2.0f
CompressorSubBlock == 256                       \* ALfloat gains[256]

\* ATTACK_TIME 0.1f, RELEASE_TIME 0.2f: the sample counts of a full attack and
\* of a full release at sample rate f (whole for the rates of the model).
AttackCount(f) == f \div 10
ReleaseCount(f) == f \div 5

\* CompressorState{}: the member initialisers.
CompressorState_create ==
    [mGain |-> [j \in AmbiChannels |-> NoGains],
     mEnabled |-> 1, mAttackMult |-> FOne, mReleaseMult |-> FOne, mEnvFollower |-> FOne]

\* deviceUpdate that recomputes the attack multiplier only.
CompressorState_deviceUpdate_AttackOnly(s, dev) ==
    [s EXCEPT !.mAttackMult = FRoot(FMul(AMP_ENVELOPE_MAX, FRecip(AMP_ENVELOPE_MIN)),
                                    AttackCount(dev.Frequency))]

CompressorState_deviceUpdate(s, dev) ==
    [s EXCEPT
        !.mAttackMult  = FRoot(FMul(AMP_ENVELOPE_MAX, FRecip(AMP_ENVELOPE_MIN)),
                               AttackCount(dev.Frequency)),
        !.mReleaseMult = FRoot(FMul(AMP_ENVELOPE_MIN, FRecip(AMP_ENVELOPE_MAX)),
                               ReleaseCount(dev.Frequency))]

\* update that restarts the envelope when it sets the flag.
CompressorState_update_RestartsEnvelope(s, dev, p, gains) ==
    [s EXCEPT !.mEnabled = p.OnOff, !.mGain = gains, !.mEnvFollower = FOne]

\* update: gains[j] are the pan gains ComputePanGains gives for input channel
\* j, the slot's gain and the target.
CompressorState_update(s, dev, p, gains) ==
    [s EXCEPT !.mEnabled = p.OnOff, !.mGain = gains]

\* The amplitude the envelope follows at one sample, without the clamp.
CompressorAmplitude_Unclamped(s, sample, onNaN) ==
    IF s.mEnabled # 0 THEN fabs(sample) ELSE FOne

\* The amplitude the envelope follows at one sample.
CompressorAmplitude(s, sample, onNaN) ==
    IF s.mEnabled # 0
    THEN clampf(fabs(sample), AMP_ENVELOPE_MIN, AMP_ENVELOPE_MAX, onNaN)
    ELSE FOne

\* The follower without the limit at the amplitude.
CompressorFollow_Overshoots(s, env, amplitude) ==
    IF FGt(amplitude, env) THEN FMul(env, s.mAttackMult)
    ELSE IF FLt(amplitude, env) THEN FMul(env, s.mReleaseMult)
    ELSE env

\* One step of the follower: attack or release the envelope towards amplitude.
CompressorFollow(s, env, amplitude) ==
    IF FGt(amplitude, env) THEN minf(FMul(env, s.mAttackMult), amplitude)
    ELSE IF FLt(amplitude, env) THEN maxf(FMul(env, s.mReleaseMult), amplitude)
    ELSE env

RECURSIVE CompressorGains(_, _, _, _, _, _, _)
\* The loop over the samples lo .. hi-1 (0-based) of the sub-block at base,
\* entered with envelope env: the envelope after them and, per sample, the
\* amplitude, the envelope before and after it, and the gain.  (The loop is
\* unfolded by halves.)
CompressorGains(s, samplesIn0, base, lo, hi, env, onNaN) ==
    IF lo >= hi THEN [env |-> env, rows |-> <<>>]
    ELSE IF hi = lo + 1
    THEN LET amplitude == CompressorAmplitude(s, samplesIn0[base + lo + 1], onNaN)
             env1 == CompressorFollow(s, env, amplitude)
         IN  [env  |-> env1,
              rows |-> <<[amplitude |-> amplitude, before |-> env, env |-> env1,
                          gain |-> FRecip(env1)]>>]
    ELSE LET mid   == (lo + hi) \div 2
             left  == CompressorGains(s, samplesIn0, base, lo, mid, env, onNaN)
             right == CompressorGains(s, samplesIn0, base, mid, hi, left.env, onNaN)
         IN  [rows |-> left.rows \o right.rows, env |-> right.env]

RECURSIVE CompressorState_processFrom_RestartsEnvelope(_, _, _, _, _)
\* The loop over the sub-blocks with the envelope of every sub-block started
\* at 1.0 instead of at mEnvFollower.
CompressorState_processFrom_RestartsEnvelope(s, samplesIn0, base, rows, onNaN) ==
    IF base >= Len(samplesIn0) THEN [state |-> s, trace |-> rows]
    ELSE LET td == mini(CompressorSubBlock, Len(samplesIn0) - base)
             g  == CompressorGains(s, samplesIn0, base, 0, td, FOne, onNaN)
         IN  CompressorState_processFrom_RestartsEnvelope(
                 [s EXCEPT !.mEnvFollower = g.env],
                 samplesIn0, base + td, rows \o g.rows, onNaN)

RECURSIVE CompressorState_processFrom(_, _, _, _, _)
\* The loop over the sub-blocks of up to 256 samples, from sample base on.
CompressorState_processFrom(s, samplesIn0, base, rows, onNaN) ==
    IF base >= Len(samplesIn0) THEN [state |-> s, trace |-> rows]
    ELSE LET td == mini(CompressorSubBlock, Len(samplesIn0) - base)
             g  == CompressorGains(s, samplesIn0, base, 0, td, s.mEnvFollower, onNaN)
         IN  CompressorState_processFrom([s EXCEPT !.mEnvFollower = g.env],
                                         samplesIn0, base + td, rows \o g.rows, onNaN)

\* process over samplesToDo = Len(samplesIn0) samples of the first input channel.
CompressorState_process(s, samplesIn0, onNaN) ==
    CompressorState_processFrom(s, samplesIn0, 0, <<>>, onNaN)

\* GAIN_SILENCE_THRESHOLD (0.00001f), as the smallest positive model float.
GAIN_SILENCE_THRESHOLD == 1

\* The input channels in the order of the loop over j.
AmbiOrder == <<"W", "X">>

\* The output channels in the order of the loop over k.

\* The innermost loop with = for +=: the output sample is overwritten.
CompressorMixInto_Overwrites(buf, s, samplesIn, rows, j, k) ==
    [i \in 1 .. Len(buf) |->
        IF i <= Len(rows)
        THEN FMul(FMul(samplesIn[j][i], rows[i].gain), s.mGain[j][k])
        ELSE buf[i]]

\* for(i = 0;i < td;i++) samplesOut[k][base+i] += samplesIn[j][base+i] *
\* gains[i] * gain, over all sub-blocks: output channel k's buffer buf after
\* input channel j is mixed into its first Len(rows) samples.
CompressorMixInto(buf, s, samplesIn, rows, j, k) ==
    [i \in 1 .. Len(buf) |->
        IF i <= Len(rows)
        THEN buf[i] + FMul(FMul(samplesIn[j][i], rows[i].gain), s.mGain[j][k])
        ELSE buf[i]]

RECURSIVE CompressorMixChannel(_, _, _, _, _, _)
\* The loop over the input channels from the jn-th on, for output channel k:
\* a pair whose gain is not above the silence threshold is skipped.  (The
\* code's loop over j is its outer one; the pairs (j, k) of different k write
\* different buffers.)
CompressorMixChannel(buf, s, samplesIn, rows, jn, k) ==
    IF jn > Len(AmbiOrder) THEN buf
    ELSE LET j    == AmbiOrder[jn]
             gain == s.mGain[j][k]
         IN  CompressorMixChannel(
                 IF ~FGt(fabs(gain), GAIN_SILENCE_THRESHOLD) THEN buf
                 ELSE CompressorMixInto(buf, s, samplesIn, rows, j, k),
                 s, samplesIn, rows, jn + 1, k)

\* process with its output: the gains of the first input channel's envelope
\* are applied to every input channel and accumulated into samplesOut0.
CompressorState_processMix(s, samplesIn, samplesOut0) ==
    LET r == CompressorState_process(s, samplesIn[AmbiOrder[1]], AMP_ENVELOPE_MIN)
    IN  [state |-> r.state, trace |-> r.trace,
         samplesOut |-> [k \in OutputChannels |->
                            CompressorMixChannel(samplesOut0[k], s, samplesIn,
                                                 r.trace, 1, k)]]

-----------------------------------------------------------------------------
(* ModulatorState *)

MAX_UPDATE_SAMPLES == 128
WAVEFORM_FRACBITS == 24
WAVEFORM_FRACONE == 2^WAVEFORM_FRACBITS
WAVEFORM_FRACMASK == WAVEFORM_FRACONE - 1

\* index & WAVEFORM_FRACMASK, for the two's complement int index
MaskFrac(index) == index % WAVEFORM_FRACONE

\* A carrier sample is a count of 2^-23, the spacing of the sawtooth's values;
\* every value the waveform functions return is such a count.
SOne == 2^(WAVEFORM_FRACBITS - 1)               \* 1.0f

\* std::sin(index * Tau/WAVEFORM_FRACONE), by Bhaskara's rational
\* approximation of the sine on the top 12 bits of the phase, to 8 bits.
Sin(index) ==
    LET half == 2^11
        c    == (index \div 2^12) % half
        t    == c * (half - c)
        v    == (4 * t * 2^8) \div ((5 * half * half - 4 * t) \div 4)
    IN  IF (index \div 2^12) < half THEN v * 2^15 ELSE 0 - v * 2^15

\* index*(2.0f/WAVEFORM_FRACONE) - 1.0f: exact in float for 0 <= index < 2^24
Saw(index) == index - SOne

\* ((index >> (WAVEFORM_FRACBITS-2)) & 2) - 1
Square(index) == (((index \div 2^(WAVEFORM_FRACBITS - 2)) \div 2) % 2) * 2 * SOne - SOne

One(index) == SOne

\* The waveform function a Modulate<func> instance calls.
Waveform(func, index) ==
    CASE func = "Sin"    -> Sin(index)
      [] func = "Saw"    -> Saw(index)
      [] func = "Square" -> Square(index)
      [] func = "One"    -> One(index)

\* One iteration of Modulate's loop without the wrap of the index.
ModulateIndex_NoWrap(index, step) == index + step

\* One iteration of Modulate's loop: the index the waveform function is given.
ModulateIndex(index, step) == MaskFrac(index + step)

RECURSIVE Modulate(_, _, _, _)
\* Modulate<func>(dst, index, step, todo): per sample, the index passed to
\* func and the sample stored in dst.  (The loop is unfolded by halves.)
Modulate(func, index, step, todo) ==
    IF todo <= 0 THEN <<>>
    ELSE IF todo = 1
    THEN LET index1 == ModulateIndex(index, step)
         IN  <<[index |-> index1, sample |-> Waveform(func, index1)]>>
    ELSE LET h    == todo \div 2
             left == Modulate(func, index, step, h)
         IN  left \o Modulate(func, left[h].index, step, todo - h)

\* diff * pos / Counter, the part of a ramp over Counter samples reached at
\* sample pos, rounded toward zero.
RampPart(diff, pos, Counter) ==
    IF diff >= 0 THEN (diff * pos) \div Counter
                 ELSE 0 - (((0 - diff) * pos) \div Counter)

\* The gain-ramped mixing utility for one output channel: a ramp from the
\* current gain to the target over Counter samples, of which BufferSize are
\* written by this call.  The gain applied to each sample written, and the
\* gain reached, which is persisted as the current gain: the target itself
\* once the ramp's Counter samples are written.
MixGain(current, target, Counter, BufferSize) ==
    LET diff    == target - current
        minsize == mini(BufferSize, Counter)
        reached == IF minsize = Counter THEN target
                   ELSE current + RampPart(diff, minsize, Counter)
    IN  [applied |-> [pos \in 1 .. BufferSize |->
                         IF pos <= minsize
                         THEN current + RampPart(diff, pos - 1, Counter)
                         ELSE reached],
         reached |-> reached]

\* MixSamples(data, OutChans, OutBuffer, CurrentGains, TargetGains, Counter,
\* OutPos, BufferSize): per sample written the gain of every output channel,
\* and the CurrentGains it leaves.
MixSamples(CurrentGains, TargetGains, Counter, BufferSize) ==
    LET m == [c \in OutputChannels |->
                 MixGain(CurrentGains[c], TargetGains[c], Counter, BufferSize)]
    IN  [gains |-> [pos \in 1 .. BufferSize |->
                       [c \in OutputChannels |-> m[c].applied[pos]]],
         CurrentGains |-> [c \in OutputChannels |-> m[c].reached]]

\* ModulatorState{}: the member initialisers (mGetSamples is a null pointer).
\* The state of one input channel, mChans[0], is modelled.
ModulatorState_create ==
    [mGetSamples |-> "null", mIndex |-> 0, mStep |-> 1,
     f0norm |-> 0, FilterClear |-> TRUE,
     CurrentGains |-> NoGains, TargetGains |-> NoGains]

\* deviceUpdate that also forgets the carrier generator.
ModulatorState_deviceUpdate_UnsetsGenerator(s, dev) ==
    [s EXCEPT !.FilterClear = TRUE, !.CurrentGains = NoGains, !.mGetSamples = "null"]

\* deviceUpdate: clears every channel's filter history and current gains; the
\* device is unused.
ModulatorState_deviceUpdate(s, dev) ==
    [s EXCEPT !.FilterClear = TRUE, !.CurrentGains = NoGains]

\* fastf2i(clampf(step*WAVEFORM_FRACONE, 0, WAVEFORM_FRACONE-1)) for
\* step = frequency/rate: the quotient, scaled to phase units, rounded to the
\* nearest integer (ties to even) and clamped.  frequency is a count of
\* 1/FUnit Hz and rate a whole number of Hz.
ModulatorStep(frequency, rate) ==
    LET scale == WAVEFORM_FRACONE \div FUnit
        whole == frequency \div rate
        num   == (frequency % rate) * scale
        q     == num \div rate
        r     == num % rate
        up    == IF 2 * r > rate \/ (2 * r = rate /\ q % 2 = 1) THEN 1 ELSE 0
    IN  IF whole >= FUnit THEN WAVEFORM_FRACONE - 1
        ELSE mini(whole * scale + q + up, WAVEFORM_FRACONE - 1)

\* The normalised cutoff is a count of 2^-16.
F0Unit == 2^16
F0NORM_MIN == F0Unit \div 512                   \* 1.0f/512.0f
F0NORM_MAX == (49 * F0Unit) \div 100            \* 0.49f

\* clampf(cutoff/rate, 1/512, 0.49)
ModulatorF0Norm(cutoff, rate) ==
    LET f0 == (cutoff * (F0Unit \div FUnit)) \div rate
    IN  IF f0 < F0NORM_MIN THEN F0NORM_MIN
        ELSE IF f0 > F0NORM_MAX THEN F0NORM_MAX ELSE f0

\* The selection with the waveform tested before the zero step.
ModulatorGenerator_WaveformFirst(step, waveform) ==
    IF waveform = AL_RING_MODULATOR_SINUSOID THEN "Sin"
    ELSE IF waveform = AL_RING_MODULATOR_SAWTOOTH THEN "Saw"
    ELSE IF step = 0 THEN "One"
    ELSE "Square"

\* The carrier generator update selects.
ModulatorGenerator(step, waveform) ==
    IF step = 0 THEN "One"
    ELSE IF waveform = AL_RING_MODULATOR_SINUSOID THEN "Sin"
    ELSE IF waveform = AL_RING_MODULATOR_SAWTOOTH THEN "Saw"
    ELSE "Square"

\* update that also restarts the carrier's phase.
ModulatorState_update_RestartsPhase(s, dev, p, gains) ==
    LET step == ModulatorStep(p.Frequency, dev.Frequency)
    IN  [s EXCEPT !.mStep = step,
                  !.mIndex = 0,
                  !.mGetSamples = ModulatorGenerator(step, p.Waveform),
                  !.f0norm = ModulatorF0Norm(p.HighPassCutoff, dev.Frequency),
                  !.TargetGains = gains]

\* update: dev is context->Device, gains the pan gains ComputePanGains gives
\* for the slot and the target.
ModulatorState_update(s, dev, p, gains) ==
    LET step == ModulatorStep(p.Frequency, dev.Frequency)
    IN  [s EXCEPT !.mStep = step,
                  !.mGetSamples = ModulatorGenerator(step, p.Waveform),
                  !.f0norm = ModulatorF0Norm(p.HighPassCutoff, dev.Frequency),
                  !.TargetGains = gains]

\* The phase advanced by a full sub-block whatever its length.
PhaseAfter_FullSubBlock(index, step, td) ==
    MaskFrac(index + MaskFrac(step * MAX_UPDATE_SAMPLES))

\* mIndex += (step*td) & WAVEFORM_FRACMASK; mIndex &= WAVEFORM_FRACMASK
PhaseAfter(index, step, td) == MaskFrac(index + MaskFrac(step * td))

\* The ramp length with the whole block passed for every sub-block.
MixCounter_WholeBlock(samplesToDo, base) == samplesToDo

\* The ramp length process passes to MixSamples: the samples of the block
\* that remain from the sub-block's first sample on.
MixCounter(samplesToDo, base) == samplesToDo - base

RECURSIVE ModulatorState_processFrom(_, _, _, _)
\* The loop over the sub-blocks of up to MAX_UPDATE_SAMPLES samples.
ModulatorState_processFrom(s, samplesToDo, base, rows) ==
    IF base >= samplesToDo THEN [state |-> s, trace |-> rows]
    ELSE LET td == mini(MAX_UPDATE_SAMPLES, samplesToDo - base)
             modsamples == Modulate(s.mGetSamples, s.mIndex, s.mStep, td)
             index1 == PhaseAfter(s.mIndex, s.mStep, td)
             mix == MixSamples(s.CurrentGains, s.TargetGains,
                               MixCounter(samplesToDo, base), td)
             done == [i \in 1 .. td |->
                         [index  |-> modsamples[i].index,
                          sample |-> modsamples[i].sample,
                          gains  |-> mix.gains[i]]]
         IN  ModulatorState_processFrom(
                 [s EXCEPT !.mIndex = index1, !.FilterClear = FALSE,
                           !.CurrentGains = mix.CurrentGains],
                 samplesToDo, base + td, rows \o done)

ModulatorState_process(s, samplesToDo) ==
    ModulatorState_processFrom(s, samplesToDo, 0, <<>>)

-----------------------------------------------------------------------------
(* The life cycle: the mixer's calls of deviceUpdate, update and process on    *)
(* the slot's EffectState                                                     *)

MaxProcessCalls == 2
MaxBlock == 1

\* Sample rates of the device.  The compressor's time constants are counted
\* in samples, so low rates let its envelope cross its whole range within a
\* few samples; each rate is a multiple of 10, which makes both counts whole.
DeviceFrequencies(k) == IF k = "Compressor" THEN {10, 40} ELSE {8000, 44100}

\* The props update is called with: any in-range value of an on/off flag; a
\* frequency whose step rounds to zero at 44100 Hz but not at 8000 Hz, and
\* the maximum, whose step at 8000 Hz is clamped to WAVEFORM_FRACONE-1; the
\* default and the maximum cutoff; every waveform.
UpdateProps(k) ==
    IF k = "Compressor"
    THEN [OnOff : AL_COMPRESSOR_MIN_ONOFF .. AL_COMPRESSOR_MAX_ONOFF]
    ELSE [Frequency      : {1, AL_RING_MODULATOR_MAX_FREQUENCY},
          HighPassCutoff : {AL_RING_MODULATOR_DEFAULT_HIGHPASS_CUTOFF,
                            AL_RING_MODULATOR_MAX_HIGHPASS_CUTOFF},
          Waveform       : AL_RING_MODULATOR_MIN_WAVEFORM .. AL_RING_MODULATOR_MAX_WAVEFORM]

\* The pan gains ComputePanGains gives update for the slot and the target.
PanGains(k) == [c \in OutputChannels |-> IF c = "FrontLeft" THEN F(1) ELSE FOne \div 2]

\* Block lengths: one sample, and one sample more than a sub-block.
BlockLengths(k) ==
    {1, IF k = "Compressor" THEN CompressorSubBlock + 1 ELSE MAX_UPDATE_SAMPLES + 1}

\* The first input channel repeats one of these patterns: silence, a signal
\* above the envelope's maximum, a negative signal inside the envelope's
\* range, a signal of amplitude 1.0 with a NaN in it.
SamplePatterns == {<<0>>, <<F(3)>>, <<0 - (3 * FUnit) \div 4>>, <<F(1), NaN>>}

Repeat(pat, n) == [i \in 1 .. n |-> pat[((i - 1) % Len(pat)) + 1]]

\* What clampf may turn a NaN amplitude into.
NaNOutcomes(pat) ==
    IF \E i \in 1 .. Len(pat) : pat[i] = NaN
    THEN {NaN, AMP_ENVELOPE_MIN, AMP_ENVELOPE_MAX}
    ELSE {AMP_ENVELOPE_MIN}

\* A device reset sets the device's rate and calls deviceUpdate on the state.
DeviceUpdateCall(k, f, s1) ==
    /\ kind = k
    /\ device' = [Frequency |-> f]
    /\ state' = s1
    /\ last' = [op |-> "deviceUpdate", Frequency |-> f]
    /\ trace' = <<>>
    /\ hist' = [hist EXCEPT !.rate = f, !.prev = hist.rate, !.fresh = FALSE]
    /\ samplesOut' = NoOutput
    /\ UNCHANGED <<kind, paramVars>>

UpdateCall(k, p, s1) ==
    /\ kind = k
    /\ state' = s1
    /\ last' = [op |-> "update", props |-> p]
    /\ trace' = <<>>
    /\ hist' = [hist EXCEPT !.uprops = p, !.fresh = TRUE]
    /\ samplesOut' = NoOutput
    /\ UNCHANGED <<kind, device, paramVars>>

ProcessCall(k, n, pat, r) ==
    /\ kind = k
    /\ hist.nprocess < MaxProcessCalls
    /\ state' = r.state
    /\ trace' = r.trace
    /\ last' = [op |-> "process", samplesToDo |-> n, pattern |-> pat, state |-> state]
    /\ hist' = [hist EXCEPT !.nprocess = @ + 1]
    /\ samplesOut' = NoOutput
    /\ UNCHANGED <<kind, device, paramVars>>

CallCompressorState_deviceUpdate ==
    \E f \in DeviceFrequencies("Compressor") :
        DeviceUpdateCall("Compressor", f,
                         CompressorState_deviceUpdate(state, [Frequency |-> f]))

CallCompressorState_update ==
    \E p \in UpdateProps("Compressor") :
        UpdateCall("Compressor", p,
                   CompressorState_update(state, device, p,
                       [j \in AmbiChannels |-> PanGains("Compressor")]))

CallCompressorState_process ==
    \E n \in BlockLengths("Compressor"), pat \in SamplePatterns :
        \E onNaN \in NaNOutcomes(pat) :
            ProcessCall("Compressor", n, pat,
                        CompressorState_process(state, Repeat(pat, n), onNaN))

CallModulatorState_deviceUpdate ==
    \E f \in DeviceFrequencies("Modulator") :
        DeviceUpdateCall("Modulator", f,
                         ModulatorState_deviceUpdate(state, [Frequency |-> f]))

\* update reads the rate of context->Device, and is called once the first
\* deviceUpdate has made the state DeviceReady.
CallModulatorState_update ==
    /\ hist.rate # 0
    /\ \E p \in UpdateProps("Modulator") :
           UpdateCall("Modulator", p,
                      ModulatorState_update(state, device, p, PanGains("Modulator")))

\* process is called only once update has set the carrier generator: the
\* call through the null mGetSamples of a fresh state is undefined.
CallModulatorState_process ==
    /\ kind = "Modulator"
    /\ state.mGetSamples # "null"
    /\ \E n \in BlockLengths("Modulator") :
           ProcessCall("Modulator", n, <<>>, ModulatorState_process(state, n))

\* A slot is given an effect: the factory creates its state, on a device that
\* is open at one of the rates.
InitLife ==
    /\ kind \in {"Compressor", "Modulator"}
    /\ props = IF kind = "Compressor" THEN CompressorStateFactory_getDefaultProps
                                      ELSE ModulatorStateFactory_getDefaultProps
    /\ call = NoCall
    /\ err = AL_NO_ERROR
    /\ out = 0
    /\ device \in [Frequency : DeviceFrequencies(kind)]
    /\ state = IF kind = "Compressor" THEN CompressorState_create
                                      ELSE ModulatorState_create
    /\ last = NoLifeCall
    /\ trace = <<>>
    /\ hist = NoHistory
    /\ samplesOut = NoOutput

NextLife ==
    \/ CallCompressorState_deviceUpdate
    \/ CallCompressorState_update
    \/ CallCompressorState_process
    \/ CallModulatorState_deviceUpdate
    \/ CallModulatorState_update
    \/ CallModulatorState_process

SpecLife == InitLife /\ [][NextLife]_vars

-----------------------------------------------------------------------------
(* Properties of the life cycle, checked under SpecLife *)

Processed(k) == kind = k /\ last.op = "process"

InEnvelopeRange(x) == x # NaN /\ x >= AMP_ENVELOPE_MIN /\ x <= AMP_ENVELOPE_MAX

\* C7: in every state reachable from a fresh CompressorState by deviceUpdate,
\* update and process calls, with any samples and any block length >= 1, the
\* envelope follower is within [0.5, 2.0]; and every per-sample gain process
\* produced is 1/envelope (to the rounding of the division) for the envelope
\* at that sample, and is within [0.5, 2.0].
C7_EnvelopeAndGainBounded ==
    kind = "Compressor" =>
        /\ InEnvelopeRange(state.mEnvFollower)
        /\ \A i \in 1 .. Len(trace) :
              /\ InEnvelopeRange(trace[i].env)
              /\ 2 * (trace[i].gain * trace[i].env - FOne * FOne) <= trace[i].env
              /\ 2 * (FOne * FOne - trace[i].gain * trace[i].env) <= trace[i].env
              /\ InEnvelopeRange(trace[i].gain)

\* An enabled compressor processed a block longer than a sub-block of a loud
\* signal: the envelope rose from below its maximum to exactly the maximum
\* and the gain fell to the minimum.
C7_Witness ==
    /\ Processed("Compressor")
    /\ state.mEnabled # 0
    /\ Len(trace) > CompressorSubBlock
    /\ trace[1].before < AMP_ENVELOPE_MAX
    /\ trace[Len(trace)].env = AMP_ENVELOPE_MAX
    /\ trace[Len(trace)].gain = AMP_ENVELOPE_MIN
    /\ state.mEnvFollower = AMP_ENVELOPE_MAX

\* The multipliers deviceUpdate derives from sample rate f.
AttackMultAt(f) == FRoot(4 * FOne, AttackCount(f))
ReleaseMultAt(f) == FRoot(FOne \div 4, ReleaseCount(f))

CompressorRateCurrent ==
    /\ last.state.mAttackMult = AttackMultAt(hist.rate)
    /\ last.state.mReleaseMult = ReleaseMultAt(hist.rate)

ModulatorRateCurrent ==
    /\ last.state.mStep = ModulatorStep(hist.uprops.Frequency, hist.rate)
    /\ last.state.f0norm = ModulatorF0Norm(hist.uprops.HighPassCutoff, hist.rate)

\* C8 as stated: after a deviceUpdate, the sample-rate-derived values every
\* process call uses (compressor: attack and release multipliers; modulator:
\* phase step and normalised cutoff) are those derived from the rate of the
\* most recent deviceUpdate, whether or not an update was called since.
C8_NoStaleRateInProcess ==
    /\ (Processed("Compressor") /\ hist.rate # 0) => CompressorRateCurrent
    /\ (Processed("Modulator") /\ hist.rate # 0) => ModulatorRateCurrent

\* C8, amended: after a deviceUpdate, the compressor's attack and release
\* multipliers used by every process call are those derived from the rate of
\* the most recent deviceUpdate; the modulator's phase step and normalised
\* cutoff are derived by update, not by deviceUpdate, and are those of the
\* rate of the most recent deviceUpdate in every process call made after an
\* update that followed that deviceUpdate.
C8_NoStaleRateOnceUpdated ==
    /\ (Processed("Compressor") /\ hist.rate # 0) => CompressorRateCurrent
    /\ (Processed("Modulator") /\ hist.rate # 0 /\ hist.fresh) => ModulatorRateCurrent

\* The modulator processed after a deviceUpdate that changed the rate and an
\* update that followed it, with a step that differs from the old rate's.
C8_Witness ==
    /\ Processed("Modulator")
    /\ hist.prev # 0
    /\ hist.prev # hist.rate
    /\ hist.fresh
    /\ last.state.mStep = ModulatorStep(hist.uprops.Frequency, hist.rate)
    /\ last.state.mStep # ModulatorStep(hist.uprops.Frequency, hist.prev)

\* C9: when update computed a step of zero, every carrier sample of every
\* following process call, until the next update, is exactly 1.0, for every
\* waveform selection, every phase and every block length.
C9_ZeroStepCarrierIsOne ==
    (Processed("Modulator") /\ last.state.mStep = 0) =>
        /\ Len(trace) = last.samplesToDo
        /\ \A i \in 1 .. Len(trace) : trace[i].sample = SOne

\* A non-zero frequency whose step rounded to zero, the square wave selected,
\* a phase that an earlier process call had moved off zero, and a block
\* longer than a sub-block.
C9_Witness ==
    /\ Processed("Modulator")
    /\ last.state.mStep = 0
    /\ hist.uprops.Frequency > 0
    /\ hist.uprops.Waveform = AL_RING_MODULATOR_SQUARE
    /\ last.state.mIndex # 0
    /\ Len(trace) > MAX_UPDATE_SAMPLES
    /\ trace[Len(trace)].sample = SOne

\* Phase indices at the ends of the range and around each quarter of a cycle.
ProbeIndices ==
    {0, 1, 2^22 - 1, 2^22, 2^23 - 1, 2^23, 2^23 + 2^22 - 1, 2^23 + 2^22,
     WAVEFORM_FRACONE - 2}

\* C10: for a phase index in [0, 2^24) every waveform's value is within
\* [-1, 1]: the sawtooth is the linear ramp that starts at -1 and rises by
\* 2/2^24 per index, so stays below 1; the square wave is exactly -1 or +1;
\* and every index Modulate passes to a waveform function is in [0, 2^24).
C10_CarrierBounded ==
    /\ Saw(0) = 0 - SOne
    /\ \A index \in ProbeIndices \cup {WAVEFORM_FRACONE - 1} :
          /\ Saw(index) >= 0 - SOne /\ Saw(index) < SOne
          /\ Square(index) \in {0 - SOne, SOne}
          /\ Sin(index) >= 0 - SOne /\ Sin(index) <= SOne
    /\ \A index \in ProbeIndices :
          (Saw(index + 1) - Saw(index)) * (WAVEFORM_FRACONE \div 2) = SOne
    /\ Processed("Modulator") =>
          \A i \in 1 .. Len(trace) :
              /\ trace[i].index >= 0 /\ trace[i].index < WAVEFORM_FRACONE
              /\ trace[i].sample >= 0 - SOne /\ trace[i].sample <= SOne
              /\ last.state.mGetSamples = "Saw" =>
                    (trace[i].sample = Saw(trace[i].index) /\ trace[i].sample < SOne)
              /\ last.state.mGetSamples = "Square" =>
                    trace[i].sample \in {0 - SOne, SOne}

\* A sawtooth block in which the phase reached the last index, 2^24 - 1,
\* where the ramp is at its highest, and wrapped round in the next sample.
C10_Witness ==
    /\ Processed("Modulator")
    /\ last.state.mGetSamples = "Saw"
    /\ \E i \in 1 .. Len(trace) - 1 :
          /\ trace[i].index = WAVEFORM_FRACONE - 1
          /\ trace[i].sample = SOne - 1
          /\ trace[i + 1].index < trace[i].index

\* The state a second update call, with the arguments of the update call
\* just made, leaves.
UpdateAgain ==
    IF kind = "Compressor"
    THEN CompressorState_update(state', device', last'.props,
                                [j \in AmbiChannels |-> PanGains("Compressor")])
    ELSE ModulatorState_update(state', device', last'.props, PanGains("Modulator"))

\* C12: for both effects, a second update call with the arguments of the one
\* just made leaves the state the first one left (compressor: enabled flag
\* and pan gains; modulator: step, carrier generator, normalised cutoff of
\* the filter and target gains); and an update call leaves the compressor's
\* envelope, the modulator's phase index and its current gains as they were.
C12_UpdateIdempotent ==
    [][last'.op = "update" =>
          /\ UpdateAgain = state'
          /\ kind = "Compressor" => state'.mEnvFollower = state.mEnvFollower
          /\ kind = "Modulator" =>
                /\ state'.mIndex = state.mIndex
                /\ state'.CurrentGains = state.CurrentGains]_vars

\* An update of the modulator after a process call had moved the phase off
\* zero and the current gains to their targets: the update set a different
\* step than the one that process call ran with, and the phase and the
\* current gains are those the process call left.
C12_Witness ==
    /\ kind = "Modulator"
    /\ last.op = "update"
    /\ hist.nprocess > 0
    /\ state.mIndex # 0
    /\ state.mStep = 0
    /\ state.CurrentGains = PanGains("Modulator")
    /\ state.TargetGains = PanGains("Modulator")

\* One sample moved the envelope from e to e1 by no more than one release or
\* one attack step of state s.
WithinOneStep(s, e, e1) ==
    /\ FMul(e, s.mReleaseMult) <= e1
    /\ e1 <= FMul(e, s.mAttackMult)

\* C13: over every sequence of deviceUpdate, update and process calls of the
\* compressor, the envelope e before and e1 after every sample satisfy
\* e*releaseMult <= e1 <= e*attackMult, where the envelope before a sample
\* is the envelope after the sample before it: within a process call, sub-
\* block boundaries included, and from the last sample of one process call to
\* the first of the next, whatever update did to the on/off flag in between.
C13_NoEnvelopeJump ==
    [][kind = "Compressor" =>
          IF last'.op = "process"
          THEN /\ Len(trace') = last'.samplesToDo
               /\ trace'[1].before = state.mEnvFollower
               /\ \A i \in 1 .. Len(trace') :
                     WithinOneStep(state, trace'[i].before, trace'[i].env)
               /\ \A i \in 1 .. Len(trace') - 1 :
                     trace'[i + 1].before = trace'[i].env
               /\ state'.mEnvFollower = trace'[Len(trace')].env
          ELSE state'.mEnvFollower = state.mEnvFollower]_vars

\* The first process call after the compressor was switched off, at a rate
\* where a full release takes several samples, with the envelope an enabled
\* process call had raised: the first sample released the envelope by one
\* step and left it above the amplitude 1.0 it now follows.
C13_Witness ==
    /\ Processed("Compressor")
    /\ last.state.mEnabled = 0
    /\ hist.uprops = [OnOff |-> 0]
    /\ last.state.mEnvFollower > FOne
    /\ hist.nprocess = 2
    /\ trace[1].before = last.state.mEnvFollower
    /\ trace[1].env = FMul(trace[1].before, last.state.mReleaseMult)
    /\ trace[1].env < trace[1].before
    /\ trace[1].env > FOne

\* update has been called at least once.
Configured == DOMAIN hist.uprops # {}

\* C14: in every state of the modulator reached by life-cycle calls with at
\* least one update among them, mGetSamples is one of the four generators
\* (constant one, sine, sawtooth, square), whatever deviceUpdate calls
\* followed the update; it is unset only where update was never called.
C14_GeneratorSetOnceConfigured ==
    kind = "Modulator" =>
        /\ Configured => state.mGetSamples \in {"One", "Sin", "Saw", "Square"}
        /\ state.mGetSamples = "null" => ~Configured

\* A deviceUpdate to another rate after an update and a process call: the
\* generator the update selected is still set.
C14_Witness ==
    /\ kind = "Modulator"
    /\ last.op = "deviceUpdate"
    /\ Configured
    /\ hist.prev # 0
    /\ hist.prev # hist.rate
    /\ hist.nprocess > 0
    /\ state.mGetSamples = "Square"

-----------------------------------------------------------------------------
(* The modulator on its own: update with changing pan gains, and process     *)
(* over blocks inside one sub-block and blocks of several sub-blocks        *)

\* Pan gains of successive updates: each output channel's target rises in
\* one update and falls in another, by amounts the block lengths do not
\* divide.
TargetGainSets ==
    {[c \in OutputChannels |-> IF c = "FrontLeft" THEN F(1) ELSE 0],
     [c \in OutputChannels |-> IF c = "FrontLeft" THEN FOne \div 3 ELSE F(2) - 1]}

\* The props of these updates: a frequency whose step is 2 at 8000 Hz and 0
\* at 44100 Hz, and the maximum, whose step is WAVEFORM_FRACONE-1 at 8000 Hz;
\* the sawtooth, whose samples tell the phase.
TargetProps ==
    [Frequency      : {1, AL_RING_MODULATOR_MAX_FREQUENCY},
     HighPassCutoff : {AL_RING_MODULATOR_DEFAULT_HIGHPASS_CUTOFF},
     Waveform       : {AL_RING_MODULATOR_SAWTOOTH}]

\* Block lengths: short blocks, and two sub-blocks and one sample more.
MixBlockLengths ==
    (1 .. MaxBlock) \cup {2 * MAX_UPDATE_SAMPLES + 1}

CallModulatorState_updateTargets ==
    /\ hist.rate # 0
    /\ \E p \in TargetProps, gains \in TargetGainSets :
           UpdateCall("Modulator", p, ModulatorState_update(state, device, p, gains))

CallModulatorState_processBlock ==
    /\ kind = "Modulator"
    /\ state.mGetSamples # "null"
    /\ \E n \in MixBlockLengths :
           ProcessCall("Modulator", n, <<>>, ModulatorState_process(state, n))

InitModulator ==
    /\ kind = "Modulator"
    /\ props = ModulatorStateFactory_getDefaultProps
    /\ call = NoCall
    /\ err = AL_NO_ERROR
    /\ out = 0
    /\ device \in [Frequency : DeviceFrequencies("Modulator")]
    /\ state = ModulatorState_create
    /\ last = NoLifeCall
    /\ trace = <<>>
    /\ hist = NoHistory
    /\ samplesOut = NoOutput

NextModulator ==
    \/ CallModulatorState_deviceUpdate
    \/ CallModulatorState_updateTargets
    \/ CallModulatorState_processBlock

SpecModulator == InitModulator /\ [][NextModulator]_vars

-----------------------------------------------------------------------------
(* Properties of the modulator's mixing and phase, checked under SpecModulator *)

Between(x, a, b) == (a <= x /\ x <= b) \/ (b <= x /\ x <= a)

Magnitude(x) == IF x < 0 THEN 0 - x ELSE x

\* C11: one process call of N samples, of one or of several sub-blocks, ramps
\* every output channel's current gain to its target as one continuous ramp
\* over the N samples: after the call the current gain is the target exactly;
\* the gains applied start at the starting gain g0, lie between g0 and the
\* target g1 and never move away from g1; and no sample moves the gain by
\* more than one N-th of g1 - g0 (and a rounding), the last one included.
C11_OneContinuousRamp ==
    Processed("Modulator") =>
        \A c \in OutputChannels :
            LET g0   == last.state.CurrentGains[c]
                g1   == last.state.TargetGains[c]
                N    == last.samplesToDo
                slop == Magnitude(g1 - g0) \div N + 1
            IN  /\ Len(trace) = N
                /\ state.CurrentGains[c] = g1
                /\ trace[1].gains[c] = g0
                /\ \A i \in 1 .. N : Between(trace[i].gains[c], g0, g1)
                /\ \A i \in 1 .. N - 1 :
                      /\ Between(trace[i + 1].gains[c], trace[i].gains[c], g1)
                      /\ Magnitude(trace[i + 1].gains[c] - trace[i].gains[c]) <= slop
                /\ Magnitude(g1 - trace[N].gains[c]) <= slop

\* A block of three sub-blocks in which one channel's gain ramped down from
\* a non-zero gain an earlier call had reached: at the end of the first
\* sub-block the gain was still short of the target, which the call reached.
C11_Witness ==
    /\ Processed("Modulator")
    /\ last.samplesToDo = 2 * MAX_UPDATE_SAMPLES + 1
    /\ \E c \in OutputChannels :
          /\ last.state.CurrentGains[c] > last.state.TargetGains[c]
          /\ last.state.TargetGains[c] > 0
          /\ trace[MAX_UPDATE_SAMPLES + 1].gains[c] < last.state.CurrentGains[c]
          /\ trace[MAX_UPDATE_SAMPLES + 1].gains[c] > last.state.TargetGains[c]
          /\ state.CurrentGains[c] = last.state.TargetGains[c]

\* (step * n) mod 2^24, computed on the halves of step.
StepTimes(step, n) ==
    LET half == 2^(WAVEFORM_FRACBITS \div 2)
        hi   == step \div half
        lo   == step % half
    IN  (((hi * n) % half) * half + lo * n) % WAVEFORM_FRACONE

\* The largest ALsizei (a 32-bit int), as 2^31 - 1.
MaxALsizei == (2^30 - 1) + 2^30

\* C15: in every reachable state the step is within [0, 2^24 - 1] and the
\* stored phase within [0, 2^24); a sub-block of td <= 128 samples never
\* makes step*td exceed a signed 32-bit integer; after a process call of N
\* samples from phase p the stored phase is (p + step*N) mod 2^24, which is
\* the phase of the last carrier sample generated; and the N phases and
\* samples are those of one run of the generator over N samples, however
\* process split them into sub-blocks.
C15_PhaseAdvancesModuloCycle ==
    kind = "Modulator" =>
        /\ state.mStep >= 0 /\ state.mStep <= WAVEFORM_FRACONE - 1
        /\ state.mIndex >= 0 /\ state.mIndex < WAVEFORM_FRACONE
        /\ state.mStep <= MaxALsizei \div MAX_UPDATE_SAMPLES
        /\ Processed("Modulator") =>
              LET p0 == last.state.mIndex
                  st == last.state.mStep
                  N  == last.samplesToDo
              IN  /\ Len(trace) = N
                  /\ state.mIndex = (p0 + StepTimes(st, N)) % WAVEFORM_FRACONE
                  /\ state.mIndex = trace[N].index
                  /\ \A i \in 1 .. N :
                        /\ trace[i].index = (p0 + StepTimes(st, i)) % WAVEFORM_FRACONE
                        /\ trace[i].sample = Waveform(last.state.mGetSamples, trace[i].index)

\* A second process call, of two sub-blocks and one sample, with the largest
\* step and a phase the first call had left off zero: the phase wrapped, and
\* the first sample of the second sub-block follows the last of the first.
C15_Witness ==
    /\ Processed("Modulator")
    /\ hist.nprocess = 2
    /\ last.samplesToDo = 2 * MAX_UPDATE_SAMPLES + 1
    /\ last.state.mStep = WAVEFORM_FRACONE - 1
    /\ last.state.mIndex # 0
    /\ trace[1].index < last.state.mIndex
    /\ trace[MAX_UPDATE_SAMPLES + 1].index = trace[MAX_UPDATE_SAMPLES].index - 1
    /\ state.mIndex = trace[2 * MAX_UPDATE_SAMPLES + 1].index
    /\ state.mIndex # last.state.mIndex

-----------------------------------------------------------------------------
(* The compressor on its own: update with changing pan gains, and process    *)
(* with its input channels and the output buffers it accumulates into        *)

\* The number of process calls followed with their buffers, and the samples
\* of the output buffers past the block.
MaxMixCalls == 1
OutTail == 2

\* Pan gains of successive updates, mGain[j][k]: gains above the silence
\* threshold, a negative one, gains of zero and at the threshold; in the
\* first, no input channel reaches FrontRight.
CompressorGainSets ==
    {[j \in AmbiChannels |->
         IF j = "W" THEN [k \in OutputChannels |-> IF k = "FrontLeft" THEN F(1) ELSE 0]
         ELSE [k \in OutputChannels |->
                  IF k = "FrontLeft" THEN FOne \div 2 ELSE GAIN_SILENCE_THRESHOLD]],
     [j \in AmbiChannels |->
         IF j = "W" THEN [k \in OutputChannels |->
                            IF k = "FrontLeft" THEN 0 - FOne \div 2 ELSE F(1)]
         ELSE [k \in OutputChannels |-> IF k = "FrontLeft" THEN 0 ELSE FOne \div 4]]}

\* The buffers of a call: input channels, each repeating a pattern, and what
\* the output buffers hold before the call.  A peak above the envelope's
\* range followed by silence on the first channel, which drives the envelope,
\* mixed into silent buffers; a negative signal inside the range, mixed into
\* what other sources have left in the buffers.
CompressorBuffers ==
    {[samplesIn  |-> [j \in AmbiChannels |->
                         IF j = "W" THEN <<F(3), F(3), 0, 0>> ELSE <<F(1)>>],
      samplesOut |-> [k \in OutputChannels |-> 0]],
     [samplesIn  |-> [j \in AmbiChannels |->
                         IF j = "W" THEN <<0 - (3 * FUnit) \div 4>>
                                    ELSE <<0 - F(2), F(1)>>],
      samplesOut |-> [k \in OutputChannels |->
                         IF k = "FrontLeft" THEN F(5) ELSE 0 - 7]]}

\* Block lengths: short blocks, and one sample more than a sub-block.
CompressorBlockLengths == (1 .. MaxBlock) \cup {3, CompressorSubBlock + 1}

CallCompressorState_updateGains ==
    \E p \in UpdateProps("Compressor"), gains \in CompressorGainSets :
        UpdateCall("Compressor", p, CompressorState_update(state, device, p, gains))

CallCompressorState_processMix ==
    /\ kind = "Compressor"
    /\ hist.nprocess < MaxMixCalls
    /\ \E n \in CompressorBlockLengths, b \in CompressorBuffers :
          LET samplesIn   == [j \in AmbiChannels |-> Repeat(b.samplesIn[j], n)]
              samplesOut0 == [k \in OutputChannels |->
                                 [i \in 1 .. n + OutTail |-> b.samplesOut[k]]]
              r == CompressorState_processMix(state, samplesIn, samplesOut0)
          IN  /\ state' = r.state
              /\ trace' = r.trace
              /\ samplesOut' = r.samplesOut
              /\ last' = [op |-> "process", samplesToDo |-> n, samplesIn |-> samplesIn,
                          samplesOut |-> samplesOut0, state |-> state]
    /\ hist' = [hist EXCEPT !.nprocess = @ + 1]
    /\ UNCHANGED <<kind, device, paramVars>>

InitCompressor ==
    /\ kind = "Compressor"
    /\ props = CompressorStateFactory_getDefaultProps
    /\ call = NoCall
    /\ err = AL_NO_ERROR
    /\ out = 0
    /\ device \in [Frequency : DeviceFrequencies("Compressor")]
    /\ state = CompressorState_create
    /\ last = NoLifeCall
    /\ trace = <<>>
    /\ hist = NoHistory
    /\ samplesOut = NoOutput

NextCompressor ==
    \/ CallCompressorState_deviceUpdate
    \/ CallCompressorState_updateGains
    \/ CallCompressorState_processMix

SpecCompressor == InitCompressor /\ [][NextCompressor]_vars

-----------------------------------------------------------------------------
(* Properties of the compressor's process, checked under SpecCompressor *)

\* Where a block of n samples is split in two: after its first sample,
\* before its last, and around the end of its first sub-block.
SplitPoints(n) ==
    {1, n - 1, CompressorSubBlock \div 2, CompressorSubBlock - 1, CompressorSubBlock}
        \cap (1 .. n - 1)

\* The gains and the envelope of a process call over the first n1 samples of
\* samplesIn0 followed by one over the rest, from state s.
ProcessInTwoCalls(s, samplesIn0, n1) ==
    LET first  == CompressorState_process(s, SubSeq(samplesIn0, 1, n1), AMP_ENVELOPE_MIN)
        second == CompressorState_process(first.state,
                      SubSeq(samplesIn0, n1 + 1, Len(samplesIn0)), AMP_ENVELOPE_MIN)
    IN  [rows |-> first.trace \o second.trace, env |-> second.state.mEnvFollower]

\* C16: a process call over N samples yields, sample for sample, the
\* amplitudes, envelopes and gains, and leaves the envelope, that a process
\* call over the first N1 samples followed by one over the other N - N1
\* yields, for the splits N1 of N; and those of one run of the follower over
\* the N samples with no sub-block boundary.
C16_EnvelopeCarriedAcrossCalls ==
    Processed("Compressor") =>
        LET s0  == last.state
            in0 == last.samplesIn[AmbiOrder[1]]
            N   == last.samplesToDo
            run == CompressorGains(s0, in0, 0, 0, N, s0.mEnvFollower, AMP_ENVELOPE_MIN)
        IN  /\ Len(trace) = N
            /\ run.rows = trace
            /\ run.env = state.mEnvFollower
            /\ \A n1 \in SplitPoints(N) :
                  LET two == ProcessInTwoCalls(s0, in0, n1)
                  IN  two.rows = trace /\ two.env = state.mEnvFollower

\* A block of two sub-blocks at a rate where attack and release take several
\* samples: the envelope was off 1.0 at the end of the first sub-block, and
\* the second sub-block went on from it.
C16_Witness ==
    /\ Processed("Compressor")
    /\ last.samplesToDo = CompressorSubBlock + 1
    /\ last.state.mEnabled # 0
    /\ last.state.mAttackMult > FOne
    /\ last.state.mAttackMult < 2 * FOne
    /\ trace[CompressorSubBlock].env # FOne
    /\ trace[CompressorSubBlock + 1].before = trace[CompressorSubBlock].env
    /\ trace[CompressorSubBlock + 1].env # trace[CompressorSubBlock].env
    /\ state.mEnvFollower = trace[CompressorSubBlock + 1].env

\* The amplitude the envelope of a call from state s approaches at a sample.
TargetAmplitude(s, sample) ==
    IF s.mEnabled # 0
    THEN LET a == Magnitude(sample)
         IN  IF a < AMP_ENVELOPE_MIN THEN AMP_ENVELOPE_MIN
             ELSE IF a > AMP_ENVELOPE_MAX THEN AMP_ENVELOPE_MAX ELSE a
    ELSE FOne

Least(a, b) == IF a <= b THEN a ELSE b
Greatest(a, b) == IF a >= b THEN a ELSE b

\* C17: at every sample of a process call, with a the clamped magnitude of
\* the first channel's sample when the compressor is enabled and 1.0 when it
\* is disabled, and e the envelope before the sample, the envelope after the
\* sample is min(e * mAttackMult, a) when a > e, max(e * mReleaseMult, a)
\* when a < e and e when a = e; it lies between e and a, both included.
C17_EnvelopeApproachesTarget ==
    Processed("Compressor") =>
        \A i \in 1 .. Len(trace) :
            LET s0 == last.state
                a  == TargetAmplitude(s0, last.samplesIn[AmbiOrder[1]][i])
                e  == trace[i].before
                e1 == trace[i].env
            IN  /\ trace[i].amplitude = a
                /\ e = IF i = 1 THEN s0.mEnvFollower ELSE trace[i - 1].env
                /\ a > e => e1 = Least(FMul(e, s0.mAttackMult), a)
                /\ a < e => e1 = Greatest(FMul(e, s0.mReleaseMult), a)
                /\ a = e => e1 = e
                /\ Between(e1, e, a)

\* A call in which the attack was held at the amplitude it would have passed
\* at one sample, the envelope stayed where the amplitude equalled it at
\* another, and released by its multiplier, short of the amplitude, at a third.
C17_Witness ==
    /\ Processed("Compressor")
    /\ last.state.mEnabled # 0
    /\ \E i \in 1 .. Len(trace) :
          /\ trace[i].amplitude > trace[i].before
          /\ trace[i].env = trace[i].amplitude
          /\ FMul(trace[i].before, last.state.mAttackMult) > trace[i].amplitude
    /\ \E i \in 1 .. Len(trace) :
          /\ trace[i].amplitude = trace[i].before
          /\ trace[i].env = trace[i].before
    /\ \E i \in 1 .. Len(trace) :
          /\ trace[i].amplitude < trace[i].before
          /\ trace[i].env = FMul(trace[i].before, last.state.mReleaseMult)
          /\ trace[i].env > trace[i].amplitude

RECURSIVE SumOver(_, _)
\* The sum of f over the set S.
SumOver(f, S) ==
    IF S = {} THEN 0
    ELSE LET x == CHOOSE y \in S : TRUE
         IN  f[x] + SumOver(f, S \ {x})

\* What a process call leaves in the output buffers when the input channels
\* j with mixed[j][k] are the ones added to output channel k: the samples of
\* the block are their values before the call plus in[j][i] * gain[i] *
\* panGain[j][k] for those j, the samples past the block are their values
\* before the call, and so is all of a channel to which no j is mixed.
AccumulatedWhere(mixed) ==
    LET s0 == last.state
        N  == last.samplesToDo
    IN  \A k \in OutputChannels :
            /\ DOMAIN samplesOut[k] = DOMAIN last.samplesOut[k]
            /\ \A i \in 1 .. N :
                  samplesOut[k][i] = last.samplesOut[k][i] +
                      SumOver([j \in AmbiChannels |->
                                  IF mixed[j][k]
                                  THEN FMul(FMul(last.samplesIn[j][i], trace[i].gain),
                                            s0.mGain[j][k])
                                  ELSE 0], AmbiChannels)
            /\ \A i \in DOMAIN samplesOut[k] :
                  i > N => samplesOut[k][i] = last.samplesOut[k][i]
            /\ (\A j \in AmbiChannels : ~mixed[j][k]) =>
                  samplesOut[k] = last.samplesOut[k]

\* The pan gain of input channel j to output channel k exceeds the threshold.
GainExceeds ==
    [j \in AmbiChannels |-> [k \in OutputChannels |->
        last.state.mGain[j][k] > GAIN_SILENCE_THRESHOLD]]

\* Its magnitude does.
GainMagnitudeExceeds ==
    [j \in AmbiChannels |-> [k \in OutputChannels |->
        Magnitude(last.state.mGain[j][k]) > GAIN_SILENCE_THRESHOLD]]

\* C18 as stated: a process call adds to out[k][i], for i below samplesToDo,
\* in[j][i] * gain[i] * panGain[j][k] for the input channels j whose pan gain
\* to k exceeds the silence threshold, and leaves the samples from
\* samplesToDo on, and the channels whose pan gains are all at or below the
\* threshold, as they were.
C18_AccumulatesGainsAboveThreshold ==
    Processed("Compressor") => AccumulatedWhere(GainExceeds)

\* C18, amended: a process call adds to out[k][i], for i below samplesToDo,
\* in[j][i] * gain[i] * panGain[j][k] for the input channels j whose pan gain
\* to k exceeds the silence threshold in magnitude, a negative gain
\* included, and leaves the samples from samplesToDo on, and the channels
\* whose pan gains are all within the threshold of zero, as they were.
C18_AccumulatesGainsOfMagnitudeAboveThreshold ==
    Processed("Compressor") => AccumulatedWhere(GainMagnitudeExceeds)

\* A block of two sub-blocks mixed into buffers that were not silent: two
\* input channels were added to one output channel, and to another a
\* channel of negative gain was added and a channel of gain zero was not;
\* the sample past the block kept its value.
C18_Witness ==
    /\ Processed("Compressor")
    /\ last.samplesToDo = CompressorSubBlock + 1
    /\ \E k \in OutputChannels :
          /\ \A j \in AmbiChannels : GainMagnitudeExceeds[j][k]
          /\ \A i \in {1, CompressorSubBlock + 1} :
                /\ last.samplesOut[k][i] # 0
                /\ \A j \in AmbiChannels :
                      samplesOut[k][i] - last.samplesOut[k][i] #
                          FMul(FMul(last.samplesIn[j][i], trace[i].gain),
                               last.state.mGain[j][k])
          /\ samplesOut[k][CompressorSubBlock + 2] = last.samplesOut[k][CompressorSubBlock + 2]
    /\ \E k \in OutputChannels :
          /\ \E j \in AmbiChannels : last.state.mGain[j][k] < 0 /\ GainMagnitudeExceeds[j][k]
          /\ \E j \in AmbiChannels : ~GainMagnitudeExceeds[j][k]
          /\ last.samplesOut[k][1] # 0
          /\ samplesOut[k][1] # last.samplesOut[k][1]

-----------------------------------------------------------------------------
(* The frame of a set of the modulator, checked under SpecParams *)

ModulatorFields == {"Frequency", "HighPassCutoff", "Waveform"}

\* The field of EffectProps a parameter id names.
ModulatorFieldOf(param) ==
    IF param = AL_RING_MODULATOR_FREQUENCY THEN "Frequency"
    ELSE IF param = AL_RING_MODULATOR_HIGHPASS_CUTOFF THEN "HighPassCutoff"
    ELSE "Waveform"

\* C19: after a set call on the modulator, through any of the four shapes,
\* that raised no error, the two fields of EffectProps other than the one
\* the parameter names hold what they held before the call and the named
\* field holds the value given; after one that raised InvalidValue or
\* InvalidEnum all three fields hold what they held before the call.
C19_SetOverwritesOnlyTargetedField ==
    Called("Modulator", SetFns) =>
        /\ err \in {AL_NO_ERROR, AL_INVALID_VALUE, AL_INVALID_ENUM}
        /\ err = AL_NO_ERROR =>
              /\ call.param \in {AL_RING_MODULATOR_FREQUENCY,
                                 AL_RING_MODULATOR_HIGHPASS_CUTOFF,
                                 AL_RING_MODULATOR_WAVEFORM}
              /\ \A f \in ModulatorFields \ {ModulatorFieldOf(call.param)} :
                    props[f] = call.props[f]
              /\ props[ModulatorFieldOf(call.param)] =
                    IF call.fn \in IntShaped
                       /\ call.param # AL_RING_MODULATOR_WAVEFORM
                    THEN IntToFloat(call.val) ELSE call.val
        /\ err # AL_NO_ERROR => props = call.props

\* An integer set just stored another waveform while the frequency and the
\* cutoff held values earlier sets had given them, and kept both.
C19_Witness ==
    /\ Called("Modulator", {"setParami", "setParamiv"})
    /\ call.param = AL_RING_MODULATOR_WAVEFORM
    /\ err = AL_NO_ERROR
    /\ props.Waveform # call.props.Waveform
    /\ call.props.Frequency # AL_RING_MODULATOR_DEFAULT_FREQUENCY
    /\ call.props.HighPassCutoff # AL_RING_MODULATOR_DEFAULT_HIGHPASS_CUTOFF
    /\ props.Frequency = call.props.Frequency
    /\ props.HighPassCutoff = call.props.HighPassCutoff

=============================================================================
